---- MODULE Spec2Model ----
(***************************************************************************)
(* Model of the live-update coordination of stock-audible (src/app.py):    *)
(* the Socket.IO handlers handle_connect, handle_start and handle_stop,    *)
(* the background thread announce_stock_prices, and the module globals     *)
(* they share (announcement_thread, stop_event, current_ticker,            *)
(* current_interval).  Handlers run one thread per event, so handlers of   *)
(* different clients interleave statement by statement with each other     *)
(* and with the background threads; nothing in app.py serialises them.     *)
(*                                                                         *)
(* Strings are sequences of one-character strings.  Python's None for a    *)
(* ticker is the empty sequence: line 77 keeps the empty string out of     *)
(* current_ticker, so the two never meet.                                  *)
(***************************************************************************)
EXTENDS Integers, Sequences, FiniteSets, TLC

\* ------------------------------------------------------------------ bounds
\* Thread objects created in one run: a start_announcements is taken up, and
\* its line 91 runs, only while fewer exist; stop_announcements and rejected
\* starts are not bounded
MaxThreads == 2

\* Socket.IO sessions, numbered in the order they connect; each connects once
\* and disconnects at most once
Clients == {1, 2}

\* ---------------------------------------------------------- configuration
\* Config.DEFAULT_INTERVAL when the environment does not set it
DEFAULT_INTERVAL == 300
\* the floor of line 89
MIN_INTERVAL == 5

\* ----------------------------------------------------------------- strings
None == <<>>

Whitespace == {" ", "\t"}

Digits == {"0", "1", "2", "3", "4", "5", "6", "7", "8", "9"}

\* str.upper() on one character
UpperChar(ch) ==
    CASE ch = "a" -> "A" [] ch = "b" -> "B" [] ch = "c" -> "C"
      [] ch = "e" -> "E" [] ch = "f" -> "F" [] ch = "g" -> "G"
      [] ch = "x" -> "X"
      [] OTHER -> ch

Upper(s) == [i \in 1..Len(s) |-> UpperChar(s[i])]

RECURSIVE LStrip(_)
LStrip(s) ==
    IF s # <<>> /\ Head(s) \in Whitespace THEN LStrip(Tail(s)) ELSE s

RECURSIVE RStrip(_)
RStrip(s) ==
    IF s # <<>> /\ s[Len(s)] \in Whitespace
    THEN RStrip(SubSeq(s, 1, Len(s) - 1))
    ELSE s

\* str.strip()
Strip(s) == RStrip(LStrip(s))

\* line 74: data.get('ticker', '').strip().upper()
NormalizeTicker(raw) == Upper(Strip(raw))

DigitValue(ch) ==
    CASE ch = "0" -> 0 [] ch = "1" -> 1 [] ch = "2" -> 2 [] ch = "3" -> 3
      [] ch = "4" -> 4 [] ch = "5" -> 5 [] ch = "6" -> 6 [] ch = "7" -> 7
      [] ch = "8" -> 8 [] OTHER -> 9

RECURSIVE DecimalValue(_)
DecimalValue(s) ==
    IF s = <<>> THEN 0
    ELSE 10 * DecimalValue(SubSeq(s, 1, Len(s) - 1)) + DigitValue(s[Len(s)])

IsDecimal(s) == s # <<>> /\ \A i \in 1..Len(s) : s[i] \in Digits

\* int(str): surrounding whitespace, an optional sign, then decimal digits;
\* anything else raises ValueError (ok = FALSE)
PyIntOfString(s) ==
    LET t == Strip(s)
        signed == t # <<>> /\ Head(t) \in {"+", "-"}
        body == IF signed THEN Tail(t) ELSE t
    IN  IF IsDecimal(body)
        THEN [ok |-> TRUE,
              v |-> IF signed /\ Head(t) = "-"
                    THEN 0 - DecimalValue(body) ELSE DecimalValue(body)]
        ELSE [ok |-> FALSE, v |-> 0]

\* line 75: int(data.get('interval', Config.DEFAULT_INTERVAL))
ParseInterval(iv) ==
    CASE iv.kind = "absent" -> [ok |-> TRUE, v |-> DEFAULT_INTERVAL]
      [] iv.kind = "int" -> [ok |-> TRUE, v |-> iv.v]
      [] OTHER -> PyIntOfString(iv.s)

Max(a, b) == IF a >= b THEN a ELSE b

\* line 89: max(5, interval)
ClampInterval(i) == Max(MIN_INTERVAL, i)

\* ---------------------------------------------------------------- payloads
Absent == [kind |-> "absent", v |-> 0, s |-> <<>>]
IntIv(n) == [kind |-> "int", v |-> n, s |-> <<>>]
StrIv(str) == [kind |-> "str", v |-> 0, s |-> str]

\* the start_announcements payloads the clients send
Payloads ==
    << [ticker |-> <<" ", "f">>, interval |-> Absent],
       [ticker |-> <<"G", "e", " ">>, interval |-> StrIv(<<"2">>)],
       [ticker |-> <<" ", "\t">>, interval |-> IntIv(10)],
       [ticker |-> <<>>, interval |-> StrIv(<<"a", "b", "c">>)],
       [ticker |-> <<"f">>, interval |-> StrIv(<<"1", "x">>)] >>

PayloadIds == 1..Len(Payloads)

\* the prices the quote source may report (cents)
Prices == {15025}

\* --------------------------------------------------------------- messages
MsgTickerRequired == "Please provide a ticker symbol"
MsgFetchFailed == "Could not fetch price for"
NoMsg == ""

\* the words of each message literal of app.py
MessageWords(text) ==
    CASE text = MsgTickerRequired -> {"Please", "provide", "a", "ticker", "symbol"}
      [] text = MsgFetchFailed -> {"Could", "not", "fetch", "price", "for"}
      [] OTHER -> {}

\* ------------------------------------------------------------------- state
VARIABLES
    announcement_thread,  \* app.py:21  0 is None, else the Thread object's id
    stop_event,           \* app.py:22  the Event's flag
    current_ticker,       \* app.py:23
    current_interval,     \* app.py:24
    threads,              \* every Thread object created so far, by id: its place
                          \* (pc) and the ticker its fetch in flight was called
                          \* with (arg)
    h,                    \* per client: the handler it is running, and its locals
    conn,                 \* per client: "new", "conn" (connected) or "gone"
    out,                  \* the event the last step emitted, << >> if none
    ret                   \* the handler that returned in the last step, if any

vars == << announcement_thread, stop_event, current_ticker, current_interval,
           threads, h, conn, out, ret >>

\* how a handler ends: it returns after its emit ("done": started or stopped,
\* "rejected": the error of line 78) or an exception leaves it ("raised")
Outcomes == {"done", "rejected", "raised"}

\* Thread.is_alive(): started and not yet finished
IsAlive(t) == threads[t].pc \notin {"new", "dead"}

Alive == {t \in 1..Len(threads) : IsAlive(t)}

Connected == {c \in Clients : conn[c] = "conn"}

\* flask_socketio.emit inside a handler: to the requesting session only
ToSelf(c) == {c} \cap Connected

\* a publish that reaches one session only, the one connected first (what C10
\* excludes)
ToFirstConnected == {c \in Connected : \A k \in Connected : c <= k}

\* socketio.emit outside a handler (lines 37, 44): to every connected session
ToAll == Connected

\* an emitted event: its name, the sessions it is delivered to, the client
\* whose handler emitted it (0: none), the thread it is about (0: none; the
\* emitting loop, or the thread the handler emitting started has started) and
\* its payload; announcement is set in price_update only
Event(name, to, cl, th, ticker, val, text) ==
    [name |-> name, to |-> to, cl |-> cl, th |-> th,
     ticker |-> ticker, val |-> val, text |-> text, announcement |-> None]

\* a handler's locals: its place (pc), the command and payload, ticker and
\* interval (lines 74-75), the thread it joins (jt) and the thread it started
\* (th); mixed: another handler ran at some time between this one's entry
\* and now; last: no handler has been entered since this one was
IdleHandler ==
    [pc |-> "idle", cmd |-> "none", p |-> 0, ticker |-> None, interval |-> 0,
     jt |-> 0, th |-> 0, mixed |-> FALSE, last |-> TRUE]

\* what is recorded of a handler when it ends: the client, the command and
\* its payload, how it ended, the thread it joined and the one it started
\* (0: none), whether another handler ran meanwhile and whether its command
\* was the last one received
Returned(c, me, how) ==
    << [c |-> c, cmd |-> me.cmd, p |-> me.p, how |-> how, jt |-> me.jt,
        th |-> me.th, mixed |-> me.mixed, last |-> me.last] >>

\* some handler other than c's is running
OthersRunning(c) == \E k \in Clients \ {c} : h[k].pc # "idle"

\* c enters a handler with locals me: the handlers that are running are no
\* longer alone, nor the last entered
Enter(c, me) ==
    [k \in Clients |->
        IF k = c THEN me
        ELSE IF h[k].pc # "idle" THEN [h[k] EXCEPT !.mixed = TRUE, !.last = FALSE]
        ELSE h[k]]

Init ==
    /\ announcement_thread = 0
    /\ stop_event = FALSE
    /\ current_ticker = None
    /\ current_interval = DEFAULT_INTERVAL
    /\ threads = <<>>
    /\ h = [c \in Clients |-> IdleHandler]
    /\ conn = [c \in Clients |-> "new"]
    /\ out = <<>>
    /\ ret = <<>>

\* ---------------------------------------------------------- handle_connect
\* a connected event that every session receives (what C16 excludes)
ConnectedToAll(c) == Event("connected", {c} \cup Connected, c, 0, None, 0, NoMsg)

\* lines 59-62
ConnectedEvent(c) == Event("connected", {c}, c, 0, None, 0, NoMsg)

Connect(c) ==
    /\ conn[c] = "new"
    /\ \A k \in Clients : k < c => conn[k] # "new"
    /\ conn' = [conn EXCEPT ![c] = "conn"]
    /\ out' = << ConnectedEvent(c) >>
    /\ ret' = <<>>
    /\ UNCHANGED << announcement_thread, stop_event, current_ticker,
                    current_interval, threads, h >>

\* a disconnection that cancels the subscription (what C11 excludes)
DisconnectStopping(c) ==
    /\ conn[c] = "conn"
    /\ h[c].pc = "idle"
    /\ conn' = [conn EXCEPT ![c] = "gone"]
    /\ stop_event' = TRUE
    /\ current_ticker' = None
    /\ out' = <<>>
    /\ ret' = <<>>
    /\ UNCHANGED << announcement_thread, current_interval, threads, h >>

\* the session goes away, between two of its commands; app.py registers no
\* disconnect handler
Disconnect(c) ==
    /\ conn[c] = "conn"
    /\ h[c].pc = "idle"
    /\ conn' = [conn EXCEPT ![c] = "gone"]
    /\ out' = <<>>
    /\ ret' = <<>>
    /\ UNCHANGED << announcement_thread, stop_event, current_ticker,
                    current_interval, threads, h >>

\* ------------------------------------------------------------ handle_start
\* lines 74-79: what the validation of a payload ends in
StartOutcome(d) ==
    IF ~ParseInterval(d.interval).ok THEN "raised"
    ELSE IF NormalizeTicker(d.ticker) = <<>> THEN "rejected"
    ELSE "ok"

\* the error of line 78 sent to every session (what the code does not do)
TickerRequiredToAll(c) == Event("error", ToAll, c, 0, None, 0, MsgTickerRequired)

\* line 78: emit('error', {'message': 'Please provide a ticker symbol'})
TickerRequiredEvent(c) == Event("error", ToSelf(c), c, 0, None, 0, MsgTickerRequired)

\* line 82: announcement_thread and announcement_thread.is_alive()
ThreadRunning == announcement_thread # 0 /\ IsAlive(announcement_thread)

\* lines 74-82: parse the payload, reject it or raise, else test the old thread
StartBegin(c, p) ==
    LET d == Payloads[p]
        res == StartOutcome(d)
        me == [IdleHandler EXCEPT !.cmd = "start", !.p = p, !.mixed = OthersRunning(c)]
    IN  /\ conn[c] = "conn"
        /\ h[c].pc = "idle"
        /\ res = "ok" => Len(threads) < MaxThreads
        /\ IF res = "raised"
           THEN /\ h' = Enter(c, IdleHandler)
                /\ out' = <<>>
                /\ ret' = Returned(c, me, "raised")
           ELSE IF res = "rejected"
           THEN /\ h' = Enter(c, IdleHandler)
                /\ out' = << TickerRequiredEvent(c) >>
                /\ ret' = Returned(c, me, "rejected")
           ELSE /\ h' = Enter(c, [me EXCEPT !.pc = IF ThreadRunning THEN "set" ELSE "clear",
                                             !.ticker = NormalizeTicker(d.ticker),
                                             !.interval = ParseInterval(d.interval).v])
                /\ out' = <<>>
                /\ ret' = <<>>
        /\ UNCHANGED << announcement_thread, stop_event, current_ticker,
                        current_interval, threads, conn >>

\* line 83: stop_event.set()
StartSet(c) ==
    /\ h[c].pc = "set"
    /\ stop_event' = TRUE
    /\ h' = [h EXCEPT ![c].pc = "join"]
    /\ out' = <<>>
    /\ ret' = <<>>
    /\ UNCHANGED << announcement_thread, current_ticker, current_interval,
                    threads, conn >>

\* line 84, the call: join() is called on whatever announcement_thread names
\* now; joining a Thread that was never started raises RuntimeError
StartJoinCall(c) ==
    /\ h[c].pc = "join"
    /\ IF threads[announcement_thread].pc = "new"
       THEN /\ h' = [h EXCEPT ![c] = IdleHandler]
            /\ ret' = Returned(c, h[c], "raised")
       ELSE /\ h' = [h EXCEPT ![c].pc = "joining", ![c].jt = announcement_thread]
            /\ ret' = <<>>
    /\ out' = <<>>
    /\ UNCHANGED << announcement_thread, stop_event, current_ticker,
                    current_interval, threads, conn >>

\* line 84, the return: join() returns once the joined thread has finished
StartJoinReturn(c) ==
    /\ h[c].pc = "joining"
    /\ threads[h[c].jt].pc = "dead"
    /\ h' = [h EXCEPT ![c].pc = "clear"]
    /\ out' = <<>>
    /\ ret' = <<>>
    /\ UNCHANGED << announcement_thread, stop_event, current_ticker,
                    current_interval, threads, conn >>

\* a start that leaves stop_event as it finds it (what C24 excludes)
StartKeepsFlag(c) ==
    /\ h[c].pc = "clear"
    /\ h' = [h EXCEPT ![c].pc = "ticker"]
    /\ out' = <<>>
    /\ ret' = <<>>
    /\ UNCHANGED << announcement_thread, stop_event, current_ticker,
                    current_interval, threads, conn >>

\* line 87: stop_event.clear()
StartClear(c) ==
    /\ h[c].pc = "clear"
    /\ stop_event' = FALSE
    /\ h' = [h EXCEPT ![c].pc = "ticker"]
    /\ out' = <<>>
    /\ ret' = <<>>
    /\ UNCHANGED << announcement_thread, current_ticker, current_interval,
                    threads, conn >>

\* line 88: current_ticker = ticker
StartTicker(c) ==
    /\ h[c].pc = "ticker"
    /\ current_ticker' = h[c].ticker
    /\ h' = [h EXCEPT ![c].pc = "interval"]
    /\ out' = <<>>
    /\ ret' = <<>>
    /\ UNCHANGED << announcement_thread, stop_event, current_interval,
                    threads, conn >>

\* line 89: current_interval = max(5, interval)
StartInterval(c) ==
    /\ h[c].pc = "interval"
    /\ current_interval' = ClampInterval(h[c].interval)
    /\ h' = [h EXCEPT ![c].pc = "create"]
    /\ out' = <<>>
    /\ ret' = <<>>
    /\ UNCHANGED << announcement_thread, stop_event, current_ticker,
                    threads, conn >>

\* line 91: announcement_thread = Thread(target=announce_stock_prices)
StartCreate(c) ==
    /\ h[c].pc = "create"
    /\ Len(threads) < MaxThreads
    /\ threads' = Append(threads, [pc |-> "new", arg |-> None])
    /\ announcement_thread' = Len(threads) + 1
    /\ h' = [h EXCEPT ![c].pc = "start"]
    /\ out' = <<>>
    /\ ret' = <<>>
    /\ UNCHANGED << stop_event, current_ticker, current_interval,
                    conn >>

\* a start whose loop begins in its wait (what C30 excludes)
StartThreadWaitingFirst(c) ==
    /\ h[c].pc = "start"
    /\ IF threads[announcement_thread].pc = "new"
       THEN /\ threads' = [threads EXCEPT ![announcement_thread].pc = "wait"]
            /\ h' = [h EXCEPT ![c].pc = "emit", ![c].th = announcement_thread]
            /\ ret' = <<>>
       ELSE /\ threads' = threads
            /\ h' = [h EXCEPT ![c] = IdleHandler]
            /\ ret' = Returned(c, h[c], "raised")
    /\ out' = <<>>
    /\ UNCHANGED << announcement_thread, stop_event, current_ticker,
                    current_interval, conn >>

\* lines 92-93: announcement_thread.daemon = True; announcement_thread.start(),
\* on whatever announcement_thread names now; both raise RuntimeError on a
\* Thread that was already started
StartThread(c) ==
    /\ h[c].pc = "start"
    /\ IF threads[announcement_thread].pc = "new"
       THEN /\ threads' = [threads EXCEPT ![announcement_thread].pc = "while"]
            /\ h' = [h EXCEPT ![c].pc = "emit", ![c].th = announcement_thread]
            /\ ret' = <<>>
       ELSE /\ threads' = threads
            /\ h' = [h EXCEPT ![c] = IdleHandler]
            /\ ret' = Returned(c, h[c], "raised")
    /\ out' = <<>>
    /\ UNCHANGED << announcement_thread, stop_event, current_ticker,
                    current_interval, conn >>

\* lines 95-98: emit('started', {ticker: current_ticker, interval: current_interval})
StartedEvent(c) ==
    Event("started", ToSelf(c), c, h[c].th, current_ticker, current_interval, NoMsg)

StartEmit(c) ==
    /\ h[c].pc = "emit"
    /\ out' = << StartedEvent(c) >>
    /\ h' = [h EXCEPT ![c] = IdleHandler]
    /\ ret' = Returned(c, h[c], "done")
    /\ UNCHANGED << announcement_thread, stop_event, current_ticker,
                    current_interval, threads, conn >>

\* ------------------------------------------------------------- handle_stop
\* a stop that flips stop_event instead of setting it (what C25 excludes)
StopToggles(c) ==
    /\ conn[c] = "conn"
    /\ h[c].pc = "idle"
    /\ stop_event' = ~stop_event
    /\ h' = Enter(c, [IdleHandler EXCEPT !.pc = "s_ticker", !.cmd = "stop",
                                         !.mixed = OthersRunning(c)])
    /\ out' = <<>>
    /\ ret' = <<>>
    /\ UNCHANGED << announcement_thread, current_ticker, current_interval,
                    threads, conn >>

\* line 106: stop_event.set()
StopBegin(c) ==
    /\ conn[c] = "conn"
    /\ h[c].pc = "idle"
    /\ stop_event' = TRUE
    /\ h' = Enter(c, [IdleHandler EXCEPT !.pc = "s_ticker", !.cmd = "stop",
                                         !.mixed = OthersRunning(c)])
    /\ out' = <<>>
    /\ ret' = <<>>
    /\ UNCHANGED << announcement_thread, current_ticker, current_interval,
                    threads, conn >>

\* line 107: current_ticker = None
StopTicker(c) ==
    /\ h[c].pc = "s_ticker"
    /\ current_ticker' = None
    /\ h' = [h EXCEPT ![c].pc = "s_emit"]
    /\ out' = <<>>
    /\ ret' = <<>>
    /\ UNCHANGED << announcement_thread, stop_event, current_interval,
                    threads, conn >>

\* a stop that answers with an error when no thread is running (what C9
\* excludes)
StoppedOrNothingToStop(c) ==
    IF ThreadRunning
    THEN Event("stopped", ToSelf(c), c, 0, None, 0, NoMsg)
    ELSE Event("error", ToSelf(c), c, 0, None, 0, MsgTickerRequired)

\* line 109: emit('stopped', {'status': 'Announcements stopped'})
StoppedEvent(c) == Event("stopped", ToSelf(c), c, 0, None, 0, NoMsg)

StopEmit(c) ==
    /\ h[c].pc = "s_emit"
    /\ out' = << StoppedEvent(c) >>
    /\ h' = [h EXCEPT ![c] = IdleHandler]
    /\ ret' = Returned(c, h[c], "done")
    /\ UNCHANGED << announcement_thread, stop_event, current_ticker,
                    current_interval, threads, conn >>

\* --------------------------------------------------- announce_stock_prices
\* line 31: while not stop_event.is_set()
LoopWhile(t) ==
    /\ threads[t].pc = "while"
    /\ threads' = [threads EXCEPT ![t].pc = IF stop_event THEN "dead" ELSE "if"]
    /\ out' = <<>>
    /\ ret' = <<>>
    /\ UNCHANGED << announcement_thread, stop_event, current_ticker,
                    current_interval, h, conn >>

\* a loop that exits when it finds no ticker (what the code does not do)
LoopIfOrExit(t) ==
    /\ threads[t].pc = "if"
    /\ threads' = [threads EXCEPT ![t].pc = IF current_ticker # None THEN "call" ELSE "dead"]
    /\ out' = <<>>
    /\ ret' = <<>>
    /\ UNCHANGED << announcement_thread, stop_event, current_ticker,
                    current_interval, h, conn >>

\* line 32: if current_ticker
LoopIf(t) ==
    /\ threads[t].pc = "if"
    /\ threads' = [threads EXCEPT ![t].pc = IF current_ticker # None THEN "call" ELSE "wait"]
    /\ out' = <<>>
    /\ ret' = <<>>
    /\ UNCHANGED << announcement_thread, stop_event, current_ticker,
                    current_interval, h, conn >>

\* line 33, the call: get_current_price(current_ticker), the global read again
LoopCall(t) ==
    /\ threads[t].pc = "call"
    /\ threads' = [threads EXCEPT ![t].pc = "emit", ![t].arg = current_ticker]
    /\ out' = <<>>
    /\ ret' = <<>>
    /\ UNCHANGED << announcement_thread, stop_event, current_ticker,
                    current_interval, h, conn >>

\* stock_service.py lines 16-39: a quote for the ticker, upper-cased, or None;
\* None is all a lookup of None can give (the except clause)
NoQuote == [ok |-> FALSE, ticker |-> None, price |-> 0]

FetchResults(arg) ==
    {NoQuote} \cup
    (IF arg = None THEN {}
     ELSE {[ok |-> TRUE, ticker |-> Upper(arg), price |-> pr] : pr \in Prices})

\* ' '.join(ticker), stock_service.py line 54
RECURSIVE Spell(_)
Spell(s) ==
    IF Len(s) <= 1 THEN s ELSE << Head(s), " " >> \o Spell(Tail(s))

\* str() of a non-negative int
RECURSIVE IntText(_)
IntText(n) ==
    LET d == << "0", "1", "2", "3", "4", "5", "6", "7", "8", "9" >>[(n % 10) + 1]
    IN  IF n < 10 THEN << d >> ELSE IntText(n \div 10) \o << d >>

\* str() of the price, a float rounded to two places (here in cents): 150.25,
\* 150.5, 150.0
PriceText(cents) ==
    IntText(cents \div 100) \o << "." >> \o
    (IF cents % 10 = 0 THEN IntText((cents % 100) \div 10)
     ELSE IntText((cents % 100) \div 10) \o IntText(cents % 10))

\* stock_service.py lines 50-56: f"{ticker_spelled}. {price}"
FormatAnnouncement(data) ==
    Spell(data.ticker) \o << ".", " " >> \o PriceText(data.price)

\* a loop that publishes a failed fetch as a price_update without a price
\* (what C19 excludes)
LoopEventPriceOnly(t, data) ==
    IF data.ok
    THEN [Event("price_update", ToAll, 0, t, data.ticker, data.price, NoMsg)
            EXCEPT !.announcement = FormatAnnouncement(data)]
    ELSE Event("price_update", ToAll, 0, t, current_ticker, 0, NoMsg)

\* lines 35-46: the event published for the value the fetch returned
LoopEvent(t, data) ==
    IF data.ok
    THEN [Event("price_update", ToAll, 0, t, data.ticker, data.price, NoMsg)
            EXCEPT !.announcement = FormatAnnouncement(data)]
    ELSE Event("error", ToAll, 0, t, current_ticker, 0, MsgFetchFailed)

\* a loop that a failed fetch ends (what C12 excludes)
LoopEmitFatal(t, data) ==
    /\ threads[t].pc = "emit"
    /\ data \in FetchResults(threads[t].arg)
    /\ out' = << LoopEvent(t, data) >>
    /\ ret' = <<>>
    /\ threads' = [threads EXCEPT ![t].pc = IF data.ok THEN "wait" ELSE "dead",
                                  ![t].arg = None]
    /\ UNCHANGED << announcement_thread, stop_event, current_ticker,
                    current_interval, h, conn >>

\* line 33, the return, and lines 35-46
LoopEmit(t, data) ==
    /\ threads[t].pc = "emit"
    /\ data \in FetchResults(threads[t].arg)
    /\ out' = << LoopEvent(t, data) >>
    /\ ret' = <<>>
    /\ threads' = [threads EXCEPT ![t].pc = "wait", ![t].arg = None]
    /\ UNCHANGED << announcement_thread, stop_event, current_ticker,
                    current_interval, h, conn >>

\* a wait that consumes the flag it was woken by (what C22 excludes)
LoopWaitClearing(t) ==
    /\ threads[t].pc = "wait"
    /\ threads' = [threads EXCEPT ![t].pc = "while"]
    /\ stop_event' = FALSE
    /\ out' = <<>>
    /\ ret' = <<>>
    /\ UNCHANGED << announcement_thread, current_ticker, current_interval, h, conn >>

\* line 49: stop_event.wait(current_interval) returns, the flag set or the
\* interval over
LoopWait(t) ==
    /\ threads[t].pc = "wait"
    /\ threads' = [threads EXCEPT ![t].pc = "while"]
    /\ out' = <<>>
    /\ ret' = <<>>
    /\ UNCHANGED << announcement_thread, stop_event, current_ticker,
                    current_interval, h, conn >>

\* --------------------------------------------------------------- behaviour
Next ==
    \/ \E c \in Clients : Connect(c)
    \/ \E c \in Clients : Disconnect(c)
    \/ \E c \in Clients, p \in PayloadIds : StartBegin(c, p)
    \/ \E c \in Clients : StartSet(c)
    \/ \E c \in Clients : StartJoinCall(c)
    \/ \E c \in Clients : StartJoinReturn(c)
    \/ \E c \in Clients : StartClear(c)
    \/ \E c \in Clients : StartTicker(c)
    \/ \E c \in Clients : StartInterval(c)
    \/ \E c \in Clients : StartCreate(c)
    \/ \E c \in Clients : StartThread(c)
    \/ \E c \in Clients : StartEmit(c)
    \/ \E c \in Clients : StopBegin(c)
    \/ \E c \in Clients : StopTicker(c)
    \/ \E c \in Clients : StopEmit(c)
    \/ \E t \in 1..Len(threads) : LoopWhile(t)
    \/ \E t \in 1..Len(threads) : LoopIf(t)
    \/ \E t \in 1..Len(threads) : LoopCall(t)
    \/ \E t \in 1..Len(threads) : \E data \in FetchResults(threads[t].arg) : LoopEmit(t, data)
    \/ \E t \in 1..Len(threads) : LoopWait(t)

\* ------------------------------------------------------------------ claims
\* an event published by a background thread (lines 37 and 44)
IsLoopEvent(e) == e.cl = 0 /\ e.name \in {"price_update", "error"}

\* a start_announcements handler ended in the last step / ended with started
StartEnded(r) == r.cmd = "start"
StartDone(r) == r.cmd = "start" /\ r.how = "done"

NoHandlerRunning == \A c \in Clients : h[c].pc = "idle"

\* C1: in every reachable state at most one announce_stock_prices loop is
\* alive (started and not yet exited), whatever the interleaving of start
\* handlers, stop handlers and the background thread.
C1_AtMostOneLoopAlive == Cardinality(Alive) <= 1

\* C2: a loop never publishes a price_update or error event in a state where
\* stop_event is set or where a later start has superseded the subscription it
\* was spawned for (announcement_thread names another thread).
C2_NoPublishOnceCancelled ==
    \A i \in 1..Len(out) :
        IsLoopEvent(out[i]) =>
            /\ ~stop_event
            /\ announcement_thread = out[i].th

\* C3: when a start for ticker B is handled while a subscription is active
\* (the handler found the old thread alive at line 82 and joined it), then at
\* the started event for B every older loop has exited, so none can publish
\* after it, and current_ticker is B.
C3_OldLoopGoneAndTickerSet ==
    \A i \in 1..Len(ret) :
        (StartDone(ret[i]) /\ ret[i].jt # 0) =>
            /\ \A t \in 1..Len(threads) : t < ret[i].th => ~IsAlive(t)
            /\ current_ticker = NormalizeTicker(Payloads[ret[i].p].ticker)

\* C4: when the last command of a sequence of start and stop commands is a
\* stop (no command was received after it, its handler has returned and no
\* handler is running any more), the state is stopped: stop_event is set and
\* current_ticker is None.
C4_StoppedAfterLastStop ==
    \A i \in 1..Len(ret) :
        (ret[i].cmd = "stop" /\ ret[i].last /\ NoHandlerRunning) =>
            /\ stop_event
            /\ current_ticker = None

\* C5: a start whose ticker is empty or whitespace-only yields exactly one
\* error event whose message contains "ticker", and no started event.
C5_BlankTickerYieldsError ==
    \A i \in 1..Len(ret) :
        (StartEnded(ret[i]) /\ Strip(Payloads[ret[i].p].ticker) = <<>>) =>
            /\ Len(out) = 1
            /\ out[1].name = "error"
            /\ "ticker" \in MessageWords(out[1].text)

\* C6: a start with a valid ticker and a non-numeric interval is surfaced to
\* the requesting client as an error event, and no started event is sent.
C6_BadIntervalYieldsError ==
    \A i \in 1..Len(ret) :
        (/\ StartEnded(ret[i])
         /\ Strip(Payloads[ret[i].p].ticker) # <<>>
         /\ ~ParseInterval(Payloads[ret[i].p].interval).ok) =>
            /\ Len(out) = 1
            /\ out[1].name = "error"
            /\ out[1].to = {ret[i].c}

\* C7: for every successful start with requested interval i (an integer, a
\* numeric string, or omitted: DEFAULT_INTERVAL), the interval stored in
\* current_interval and echoed in the started event is max(5, i); whenever a
\* loop is alive current_interval is at least 5.
C7_IntervalIsMaxOf5AndRequest ==
    /\ \A i \in 1..Len(ret) :
          StartDone(ret[i]) =>
              LET req == ParseInterval(Payloads[ret[i].p].interval).v
                  want == IF req >= 5 THEN req ELSE 5
              IN  /\ current_interval = want
                  /\ out[1].val = want
    /\ Alive # {} => current_interval >= 5

\* C8: start normalizes the ticker to trimmed upper case before use: the value
\* stored in current_ticker, the value passed to the price fetch and the value
\* echoed in the started event are the trimmed-uppercase form.
C8_TickerIsTrimmedUpper ==
    /\ \A i \in 1..Len(ret) :
          StartDone(ret[i]) =>
              /\ current_ticker = Upper(Strip(Payloads[ret[i].p].ticker))
              /\ out[1].ticker = Upper(Strip(Payloads[ret[i].p].ticker))
    /\ \A t \in 1..Len(threads) :
          threads[t].pc = "emit" =>
              /\ threads[t].arg # None
              /\ \E p \in PayloadIds : threads[t].arg = Upper(Strip(Payloads[p].ticker))

\* a step of the stop_announcements handler of client c
StopStep(c) ==
    /\ h'[c].pc # h[c].pc
    /\ h[c].cmd = "stop" \/ h'[c].cmd = "stop"

\* C9: a stop_announcements handler, in whatever state it runs (idle
\* included), creates and starts no thread, publishes nothing but a stopped
\* event, never sets the ticker (it leaves it as it is or unsets it), and
\* always ends normally, with one stopped event sent to the requesting client.
C9_StopAlwaysSucceeds ==
    [][\A c \in Clients :
          StopStep(c) =>
              /\ threads' = threads
              /\ announcement_thread' = announcement_thread
              /\ current_ticker' \in {current_ticker, None}
              /\ \A i \in 1..Len(out') : out'[i].name = "stopped"
              /\ h'[c].pc = "idle" =>
                    /\ Len(ret') = 1
                    /\ ret'[1].c = c /\ ret'[1].cmd = "stop" /\ ret'[1].how = "done"
                    /\ Len(out') = 1
                    /\ out'[1].name = "stopped" /\ out'[1].to = {c}
                    /\ current_ticker = None => current_ticker' = None]_vars

\* a stop handled when idle (no thread was ever created, no ticker set, no
\* other handler meanwhile) has just ended with its stopped event
C9_Witness ==
    /\ Len(ret) = 1
    /\ ret[1].cmd = "stop" /\ ret[1].how = "done" /\ ~ret[1].mixed
    /\ threads = <<>>
    /\ current_ticker = None
    /\ Len(out) = 1 /\ out[1].name = "stopped"

\* C10: every price_update and error event published by a loop is delivered
\* to every session connected at that moment, whoever issued the start.
C10_LoopEventsReachAllConnected ==
    \A i \in 1..Len(out) :
        IsLoopEvent(out[i]) => out[i].to = {c \in Clients : conn[c] = "conn"}

\* the one loop there has ever been (started by one session's handler)
\* publishes a price_update that is delivered to two sessions
C10_Witness ==
    /\ Len(threads) = 1
    /\ Len(out) = 1
    /\ IsLoopEvent(out[1]) /\ out[1].name = "price_update"
    /\ Cardinality(out[1].to) = 2

\* a session goes away / comes in in this step
Leaves(c) == conn[c] = "conn" /\ conn'[c] = "gone"
Joins(c) == conn[c] = "new" /\ conn'[c] = "conn"

SubscriptionUnchanged ==
    /\ current_ticker' = current_ticker
    /\ current_interval' = current_interval
    /\ stop_event' = stop_event
    /\ announcement_thread' = announcement_thread
    /\ threads' = threads

\* C11: the disconnection of any client, the one that issued the start
\* included, leaves ticker, interval, stop flag and every loop as they are;
\* afterwards the loop's events go to the sessions that remain, and a session
\* that connects then is sent its connected event.
C11_DisconnectLeavesSubscription ==
    [][/\ \A c \in Clients : Leaves(c) => SubscriptionUnchanged
       /\ (\E g \in Clients : conn[g] = "gone") =>
             /\ \A i \in 1..Len(out') :
                   IsLoopEvent(out'[i]) =>
                       out'[i].to = {k \in Clients : conn'[k] = "conn"}
             /\ \A c \in Clients :
                   Joins(c) => (Len(out') = 1 /\ out'[1].name = "connected"
                                /\ out'[1].to = {c})]_vars

\* client 1, the only session there has been, started the loop and left; the
\* loop is alive with its ticker, and nothing has stopped it
C11_Witness ==
    /\ conn = << "gone", "new" >>
    /\ Cardinality(Alive) = 1
    /\ current_ticker # None
    /\ ~stop_event

\* the last step was thread t publishing the error of a failed fetch
FailedTick(t) ==
    \E i \in 1..Len(out) :
        IsLoopEvent(out[i]) /\ out[i].name = "error" /\ out[i].th = t

\* C12: a failed fetch is not fatal: the step that publishes its error leaves
\* the thread alive, in its wait; and unless the subscription is cancelled
\* (stop_event set, or the ticker unset) the thread goes on to another fetch.
C12_FailedFetchNotFatal ==
    /\ [][\A i \in 1..Len(out') :
            (IsLoopEvent(out'[i]) /\ out'[i].name = "error") =>
                threads'[out'[i].th].pc = "wait"]_vars
    /\ \A t \in 1..MaxThreads :
          FailedTick(t) ~>
              \/ t \in 1..Len(threads) /\ threads[t].pc = "emit"
              \/ stop_event
              \/ current_ticker = None

\* a fetch has just failed and its error was published; the loop is alive and
\* nothing has cancelled the subscription
C12_Witness ==
    /\ \E t \in 1..Len(threads) : FailedTick(t) /\ IsAlive(t)
    /\ ~stop_event
    /\ current_ticker # None

\* a stop_announcements handler has just returned, its command was the last
\* one received and no handler is running
LastStopDone ==
    /\ NoHandlerRunning
    /\ \E i \in 1..Len(ret) : ret[i].cmd = "stop" /\ ret[i].last

\* C13: after a stop_announcements handler has completed, and unless a later
\* start is taken up, every loop terminates (having published at most the
\* event of the fetch in flight).
C13_LoopEndsAfterStop ==
    LastStopDone ~> (Alive = {} \/ \E c \in Clients : h[c].cmd = "start")

\* the two states of the subscription
IDLE == current_ticker = None /\ Alive = {}
ACTIVE == current_ticker # None /\ Cardinality(Alive) = 1

\* C14: every state between handler executions is IDLE (no ticker set, no
\* loop alive) or ACTIVE (ticker set, exactly one loop alive).
C14_IdleOrActive == NoHandlerRunning => (IDLE \/ ACTIVE)

\* C15: every error event, the one of an invalid start (empty ticker) as well
\* as the one of a failed fetch, is delivered to every connected session.
C15_ErrorsReachAllConnected ==
    \A i \in 1..Len(out) :
        out[i].name = "error" => out[i].to = {c \in Clients : conn[c] = "conn"}

\* C15 as the code has it: the error of an invalid start goes to the session
\* that sent the start and to no other; the error of a failed fetch goes to
\* every connected session.
C15_ErrorToRequesterOrAll ==
    \A i \in 1..Len(out) :
        out[i].name = "error" =>
            IF out[i].cl # 0
            THEN /\ out[i].to = {out[i].cl}
                 /\ out[i].text = MsgTickerRequired
                 /\ \E j \in 1..Len(ret) : ret[j].c = out[i].cl /\ ret[j].how = "rejected"
            ELSE /\ out[i].to = {c \in Clients : conn[c] = "conn"}
                 /\ out[i].text = MsgFetchFailed

\* with two sessions connected, a start with a blank ticker has just been
\* answered with its error
C15_Witness ==
    /\ Cardinality(Connected) = 2
    /\ Len(out) = 1 /\ out[1].name = "error" /\ out[1].cl # 0
    /\ Len(ret) = 1 /\ ret[1].how = "rejected"

\* C16: a connection is answered with exactly one connected event, sent to
\* the connecting session only, and changes neither the subscription state
\* nor any loop; no other step sends a connected event.
C16_ConnectAcksOnlyTheNewSession ==
    [][/\ \A c \in Clients :
            Joins(c) =>
                /\ Len(out') = 1
                /\ out'[1].name = "connected" /\ out'[1].to = {c}
                /\ SubscriptionUnchanged
                /\ h' = h
       /\ (\E i \in 1..Len(out') : out'[i].name = "connected") =>
             \E c \in Clients : Joins(c)]_vars

\* the second session has just connected, while the first is connected and a
\* loop is alive: its connected event goes to it alone
C16_Witness ==
    /\ conn = << "conn", "conn" >>
    /\ Alive # {}
    /\ Len(out) = 1 /\ out[1].name = "connected" /\ out[1].to = {2}

\* the handler of client c is at line 91 and the run's Thread objects are used up
AtThreadBound(c) == h[c].pc = "create" /\ Len(threads) >= MaxThreads

\* C17: with every fetch returning and every thread scheduled, each handler
\* that has been entered returns: the join of line 84 always ends, and a stop
\* handler waits for nothing.
C17_HandlersComplete ==
    \A c \in Clients :
        (h[c].pc # "idle") ~> (h[c].pc = "idle" \/ AtThreadBound(c))

\* thread t is in the wait of line 49 and stop_event is set
CancelledInWait(t) ==
    t \in 1..Len(threads) /\ threads[t].pc = "wait" /\ stop_event

\* C18: once stop_event is set while a loop is in its wait, that loop starts
\* no other fetch and publishes no other event, and it terminates.
C18_CancelledWaitEndsLoop ==
    \A t \in 1..MaxThreads :
        [](CancelledInWait(t) =>
              /\ [](t \in 1..Len(threads) => threads[t].pc \in {"wait", "while", "dead"})
              /\ <>(t \in 1..Len(threads) /\ threads[t].pc = "dead"))

\* C20: the error event a loop publishes for a failed fetch names the ticker
\* that was passed to that fetch, whatever the handlers do to current_ticker
\* while the fetch is in flight.
C20_ErrorNamesFetchedTicker ==
    [][\A t \in 1..Len(threads) :
          (/\ threads[t].pc = "emit"
           /\ threads'[t].pc = "wait"
           /\ Len(out') = 1
           /\ out'[1].name = "error") =>
              out'[1].ticker = threads[t].arg]_vars

\* thread t gets the result of its fetch in this step (line 33 returns)
FetchReturns(t) == threads[t].pc = "emit" /\ threads'[t].pc # "emit"

\* C19: the return of each fetch publishes exactly one event and the thread
\* goes to its wait, with no second fetch in the tick: a price_update with the
\* quote's ticker (the fetched one in upper case), its price and the
\* announcement formatted from them, or else the fetch-failure error; and a
\* loop publishes in no other step.
C19_OneEventPerFetch ==
    [][/\ \A t \in 1..Len(threads) :
            FetchReturns(t) =>
                /\ threads'[t].pc = "wait"
                /\ Len(out') = 1
                /\ IsLoopEvent(out'[1]) /\ out'[1].th = t
                /\ \/ /\ out'[1].name = "price_update"
                      /\ threads[t].arg # None
                      /\ out'[1].ticker = Upper(threads[t].arg)
                      /\ out'[1].val \in Prices
                      /\ out'[1].announcement =
                            Spell(out'[1].ticker) \o << ".", " " >> \o PriceText(out'[1].val)
                   \/ /\ out'[1].name = "error"
                      /\ out'[1].text = MsgFetchFailed
       /\ \A i \in 1..Len(out') :
            IsLoopEvent(out'[i]) =>
                \E t \in 1..Len(threads) : FetchReturns(t)]_vars

\* a fetch for F has returned a quote: the price_update for F at 150.25 with
\* its announcement has just been published, and the thread is in its wait
C19_Witness ==
    /\ Len(out) = 1
    /\ out[1].name = "price_update"
    /\ out[1].ticker = << "F" >>
    /\ out[1].val = 15025
    /\ out[1].announcement = << "F", ".", " ", "1", "5", "0", ".", "2", "5" >>
    /\ threads[out[1].th].pc = "wait"

\* thread t takes the test of line 32 in this step and finds no ticker
TickWithoutTicker(t) ==
    /\ threads[t].pc = "if"
    /\ threads'[t].pc # "if"
    /\ current_ticker = None

C22_OnlyHandlersWriteSubscription ==
    [][(\/ current_ticker' # current_ticker
        \/ current_interval' # current_interval
        \/ stop_event' # stop_event) =>
            /\ \E c \in Clients :
                  /\ h'[c].pc # h[c].pc
                  /\ h[c].cmd \in {"start", "stop"} \/ h'[c].cmd \in {"start", "stop"}
            /\ threads' = threads
            /\ conn' = conn]_vars

\* a loop has just published, and the subscription its start set up is as
\* the start left it
C22_Witness ==
    /\ Len(out) = 1 /\ IsLoopEvent(out[1])
    /\ NoHandlerRunning
    /\ current_ticker # None
    /\ current_interval = 5
    /\ ~stop_event

\* C23: a start whose ticker is empty or whitespace-only is rejected with the
\* ticker-required error event whatever its interval is, a non-numeric one
\* included: the interval is not parsed.
C23_TickerCheckedBeforeInterval ==
    \A i \in 1..Len(ret) :
        (StartEnded(ret[i]) /\ NormalizeTicker(Payloads[ret[i].p].ticker) = <<>>) =>
            /\ ret[i].how = "rejected"
            /\ out = << TickerRequiredEvent(ret[i].c) >>

\* C24: a valid start handled without any other handler overlapping it ends
\* with stop_event clear, current_ticker and current_interval the normalized
\* ticker and the clamped interval of the request, the one Thread it created
\* alive and referenced by announcement_thread, the thread it joined dead, and
\* one started event to the requester echoing ticker and interval; so also
\* when the state before was a stopped one.
C24_LoneStartSubscribes ==
    \A i \in 1..Len(ret) :
        (StartDone(ret[i]) /\ ~ret[i].mixed) =>
            LET r == ret[i]
                ticker == NormalizeTicker(Payloads[r.p].ticker)
                interval == ClampInterval(ParseInterval(Payloads[r.p].interval).v)
            IN  /\ ~stop_event
                /\ current_ticker = ticker
                /\ current_interval = interval
                /\ r.th = Len(threads)
                /\ announcement_thread = r.th
                /\ IsAlive(r.th)
                /\ r.jt # 0 => (r.jt < r.th /\ ~IsAlive(r.jt))
                /\ out = << Event("started", {r.c}, r.c, r.th, ticker, interval, NoMsg) >>

\* a start handled alone has just ended with started, and it found the first
\* loop already dead at line 82: that loop had been stopped
C24_Witness ==
    /\ Len(ret) = 1
    /\ StartDone(ret[1]) /\ ~ret[1].mixed
    /\ ret[1].jt = 0 /\ ret[1].th = 2
    /\ threads[1].pc = "dead"
    /\ IsAlive(2)

\* C25: stop is idempotent. A stop handler that runs in a stopped state
\* (stop_event set, current_ticker None) changes nothing of the subscription
\* state and of the threads, and every stop handled alone ends in the stopped
\* state with a stopped event of its own; so two stops in a row leave what one
\* leaves.
C25_StopIsIdempotent ==
    [][\A c \in Clients :
          StopStep(c) =>
              /\ (stop_event /\ current_ticker = None) =>
                    /\ stop_event' /\ current_ticker' = None
                    /\ current_interval' = current_interval
                    /\ announcement_thread' = announcement_thread
                    /\ threads' = threads
              /\ (h'[c].pc = "idle" /\ ~h[c].mixed) =>
                    /\ stop_event' /\ current_ticker' = None
                    /\ out' = << StoppedEvent(c) >>]_vars

\* a stop handler is under way, alone, in a state an earlier stop left: a loop
\* ran and has exited, and the ticker was already None
C25_Witness ==
    \E c \in Clients :
        /\ h[c].cmd = "stop" /\ h[c].pc = "s_ticker" /\ ~h[c].mixed
        /\ current_ticker = None
        /\ stop_event
        /\ threads # <<>>
        /\ \A t \in 1..Len(threads) : threads[t].pc = "dead"

\* C26: a loop never calls get_current_price with an unset ticker: every
\* fetch in flight was called with a ticker.
C26_FetchHasTicker ==
    \A t \in 1..Len(threads) :
        threads[t].pc = "emit" => threads[t].arg # None

\* some valid start has got as far as creating its Thread, or some stop has
\* set stop_event and no start has cleared it since
CommandHandled == threads # <<>> \/ stop_event

\* C27: whenever no handler is running and a valid start or a stop has been
\* handled, current_ticker is set exactly when stop_event is clear, and when
\* it is set a loop is alive.
C27_TickerSetIffFlagClear ==
    (NoHandlerRunning /\ CommandHandled) =>
        /\ (current_ticker # None) <=> ~stop_event
        /\ current_ticker # None => Alive # {}

\* a stop_announcements handler has just run line 106
StopHasSetFlag == \E c \in Clients : h[c].cmd = "stop" /\ h[c].pc = "s_ticker"

\* C28: a stop is never lost: every loop alive when a stop handler sets
\* stop_event exits eventually, whatever starts follow or run meanwhile.
C28_StoppedLoopsExit ==
    \A t \in 1..MaxThreads :
        [](((t \in 1..Len(threads)) /\ IsAlive(t) /\ StopHasSetFlag) =>
              <>((t \in 1..Len(threads)) /\ threads[t].pc = "dead"))

\* C29: the started event of a start is emitted before any event of the loop
\* that start spawned: no loop publishes while the handler that started it is
\* still before its emit of lines 95-98.
C29_StartedBeforeLoopEvents ==
    \A c \in Clients :
        (h[c].cmd = "start" /\ h[c].pc = "emit") =>
            \A i \in 1..Len(out) : ~(IsLoopEvent(out[i]) /\ out[i].th = h[c].th)

\* a valid start handled alone has ended with thread t started, and no
\* handler is running
LoneStartEnded(t) ==
    /\ NoHandlerRunning
    /\ \E i \in 1..Len(ret) : StartDone(ret[i]) /\ ~ret[i].mixed /\ ret[i].th = t

\* thread t publishes in this state
Publishes(t) == \E i \in 1..Len(out) : IsLoopEvent(out[i]) /\ out[i].th = t

\* C30: after a valid start handled alone, the loop it spawned publishes an
\* event eventually unless another command is handled; and a loop goes to its
\* wait only from a tick, one that has just published or one that found no
\* ticker, so the first fetch is not preceded by a wait.
C30_FirstTickWithoutWait ==
    /\ \A t \in 1..MaxThreads :
          LoneStartEnded(t) ~> (Publishes(t) \/ ~NoHandlerRunning)
    /\ [][\A t \in 1..Len(threads) :
             (threads[t].pc # "wait" /\ threads'[t].pc = "wait") =>
                 \/ threads[t].pc = "emit" /\ Publishes(t)'
                 \/ threads[t].pc = "if" /\ current_ticker = None]_vars

\* a start handled alone has just ended and its loop is at line 31 with the
\* subscription in force, no fetch in flight
C30_Witness ==
    \E t \in 1..Len(threads) :
        /\ LoneStartEnded(t)
        /\ threads[t].pc = "while"
        /\ threads[t].arg = None
        /\ ~stop_event

Spec == Init /\ [][Next]_vars

\* the steps of the handler client c is running, once it has been entered
HandlerStep(c) ==
    \/ StartSet(c) \/ StartJoinCall(c) \/ StartJoinReturn(c) \/ StartClear(c)
    \/ StartTicker(c) \/ StartInterval(c) \/ StartCreate(c) \/ StartThread(c)
    \/ StartEmit(c) \/ StopTicker(c) \/ StopEmit(c)

\* the steps of thread t; the fetch of line 33 returns (LoopEmit)
LoopStep(t) ==
    /\ t \in 1..Len(threads)
    /\ \/ LoopWhile(t) \/ LoopIf(t) \/ LoopCall(t) \/ LoopWait(t)
       \/ \E data \in FetchResults(threads[t].arg) : LoopEmit(t, data)

\* every handler thread and every started Thread keeps being scheduled, and
\* every fetch returns; clients need not send anything
FairSpec ==
    /\ Spec
    /\ \A c \in Clients : WF_vars(HandlerStep(c))
    /\ \A t \in 1..MaxThreads : WF_vars(LoopStep(t))

====
